---- MODULE Spec2Model ----
(***************************************************************************)
(* Model of the area air-quality aggregation of src/main.py:               *)
(*   fetch_aqi_for_station / fetch_aqi_by_coordinates  (one source query)  *)
(*   get_multiple_aqi_readings_for_area                (one area task)     *)
(*   fetch_jakarta_aqi_map                             (thread-pool fan-out)*)
(*   get_aqi_level                                     (severity bands)    *)
(*   format_aqi_map_message                            (ranking)           *)
(***************************************************************************)
EXTENDS Integers, Sequences, FiniteSets, TLC

VARIABLES
    registry,          \* JAKARTA_AREAS: sequence (registry order) of areas
    feed,              \* payloads the upstream service may answer in this run
    main_pc,           \* position of the caller's thread
    task,              \* per area: state of its future
    loop,              \* per area: which loop of the area task is running
    idx,               \* per area: 1-based index of the source to query next
    in_flight,         \* per area: number of outstanding requests.get calls
    fetched,           \* per area: history of the results of its source queries
    valid_readings,    \* per area: local list valid_readings of the task
    area_info,         \* per area: value returned by the task
    finished_futures,  \* futures in the order they completed, not yet yielded
    jakarta_map,       \* the dict jakarta_map, in insertion order
    sorted_areas,      \* the list sorted_areas of format_aqi_map_message
    queried,           \* per area: the sources queried so far, in order
    future_to_area,    \* the area key of every submitted future
    last_query,        \* payload and result of the last source query
    workers            \* max_workers of the ThreadPoolExecutor of this run

vars == << registry, feed, main_pc, task, loop, idx, in_flight, fetched,
           valid_readings, area_info, finished_futures, jakarta_map,
           sorted_areas, queried, future_to_area, last_query, workers >>

(***************************************************************************)
(* Python values.  Every value carries its type; a str whose text is the   *)
(* decimal rendering of an integer n is PyDigits(n), a float is kept in    *)
(* tenths.                                                                 *)
(***************************************************************************)
PyInt(n) == [type |-> "int", n |-> n, s |-> ""]
PyFloat(tenths) == [type |-> "float", n |-> tenths, s |-> ""]
PyStr(s) == [type |-> "str", n |-> 0, s |-> s]
PyDigits(n) == [type |-> "str", n |-> n, s |-> "<decimal>"]
PyNone == [type |-> "NoneType", n |-> 0, s |-> ""]
PyFloatText(s) == [type |-> "float", n |-> 0, s |-> s]     \* nan, inf
PyList == [type |-> "list", n |-> 0, s |-> "[]"]

\* int(x) succeeds (no ValueError / TypeError / OverflowError)
CanInt(x) ==
    \/ x.type = "int"
    \/ x.type = "float" /\ x.s = ""
    \/ x.type = "str" /\ x.s = "<decimal>"

\* int(x): a float is truncated toward zero
ToInt(x) ==
    IF x.type = "float"
    THEN IF x.n >= 0 THEN x.n \div 10 ELSE -((-x.n) \div 10)
    ELSE x.n

\* x in ['-', None, ''] or x == 'N/A'     (also: x not in ['N/A','-',None,''])
IsSentinel(x) == x \in {PyStr("-"), PyNone, PyStr(""), PyStr("N/A")}

Abs(x) == IF x < 0 THEN -x ELSE x

RECURSIVE Sum(_)
Sum(s) == IF s = << >> THEN 0 ELSE Head(s) + Sum(Tail(s))

\* round(num / den) of Python 3 for den > 0: nearest integer, a tie to even
PyRoundHalfUp(num, den) == (2 * num + den) \div (2 * den)
PyRound(num, den) ==
    LET q == num \div den
        r == num % den
    IN  IF 2 * r < den THEN q
        ELSE IF 2 * r > den THEN q + 1
        ELSE IF q % 2 = 0 THEN q ELSE q + 1

\* sorted(s) for a list of integers
RECURSIVE InsertSorted(_, _)
InsertSorted(x, s) ==
    IF s = << >> THEN << x >>
    ELSE IF x < Head(s) THEN << x >> \o s
    ELSE << Head(s) >> \o InsertSorted(x, Tail(s))

RECURSIVE sorted(_)
sorted(s) == IF s = << >> THEN << >> ELSE InsertSorted(Head(s), sorted(Tail(s)))

(***************************************************************************)
(* get_aqi_level                                                           *)
(***************************************************************************)
get_aqi_level_exclusive(aqi_value) ==
    IF ~CanInt(aqi_value) THEN "N/A"
    ELSE LET aqi == ToInt(aqi_value)
         IN  IF aqi < 50 THEN "Good"
             ELSE IF aqi < 100 THEN "Moderate"
             ELSE IF aqi < 150 THEN "Unhealthy for Sensitive Groups"
             ELSE IF aqi < 200 THEN "Unhealthy"
             ELSE IF aqi < 300 THEN "Very Unhealthy"
             ELSE "Hazardous"

get_aqi_level(aqi_value) ==
    IF ~CanInt(aqi_value) THEN "N/A"
    ELSE LET aqi == ToInt(aqi_value)
         IN  IF aqi <= 50 THEN "Good"
             ELSE IF aqi <= 100 THEN "Moderate"
             ELSE IF aqi <= 150 THEN "Unhealthy for Sensitive Groups"
             ELSE IF aqi <= 200 THEN "Unhealthy"
             ELSE IF aqi <= 300 THEN "Very Unhealthy"
             ELSE "Hazardous"

(***************************************************************************)
(* One source query: fetch_aqi_for_station and fetch_aqi_by_coordinates.   *)
(* A payload is what requests.get / response.json() produce.  The result   *)
(* is PyNone or the raw 'aqi' value of the returned dict.                  *)
(***************************************************************************)
Failure(kind) == [kind |-> kind, status |-> "", aqi |-> PyNone]
Json(status, aqi) == [kind |-> "json", status |-> status, aqi |-> aqi]

fetch_aqi_for_station_any_status(payload) ==
    IF payload.kind # "json" THEN PyNone
    ELSE IF IsSentinel(payload.aqi) THEN PyNone
    ELSE IF ~CanInt(payload.aqi) THEN PyNone
    ELSE payload.aqi
fetch_aqi_for_station(payload) ==
    IF payload.kind # "json" THEN PyNone             \* except Exception
    ELSE IF payload.status # "ok" THEN PyNone
    ELSE IF IsSentinel(payload.aqi) THEN PyNone
    ELSE IF ~CanInt(payload.aqi) THEN PyNone
    ELSE payload.aqi

fetch_aqi_by_coordinates(payload) ==
    IF payload.kind # "json" THEN PyNone             \* except Exception
    ELSE IF payload.status # "ok" THEN PyNone
    ELSE IF IsSentinel(payload.aqi) THEN PyNone
    ELSE IF ~CanInt(payload.aqi) THEN PyNone
    ELSE payload.aqi

\* the body of the two source loops: the reading is appended when usable
AppendReading(readings, aqi) ==
    IF ~IsSentinel(aqi) /\ CanInt(aqi)
    THEN Append(readings, ToInt(aqi))
    ELSE readings

(***************************************************************************)
(* Outlier filter and aggregate of get_multiple_aqi_readings_for_area.     *)
(***************************************************************************)
\* median_val = sorted(valid_readings)[len(valid_readings)//2]
median_val(readings) == sorted(readings)[(Len(readings) \div 2) + 1]

\* [r for r in valid_readings if abs(r - median_val) < median_val * 0.5]
filtered_inclusive(readings) ==
    LET m == median_val(readings)
        Keep(r) == 2 * Abs(r - m) <= m
    IN  SelectSeq(readings, Keep)
filtered_readings(readings) ==
    LET m == median_val(readings)
        Keep(r) == 2 * Abs(r - m) < m
    IN  SelectSeq(readings, Keep)

\* valid_readings as it stands at the line that computes avg_aqi
contributing_keeps_one(readings) ==
    IF Len(readings) >= 3 /\ Len(filtered_readings(readings)) >= 1
    THEN filtered_readings(readings)
    ELSE readings
contributing_from_two(readings) ==
    IF Len(readings) >= 2 /\ Len(filtered_readings(readings)) >= 1
    THEN filtered_readings(readings)
    ELSE readings
contributing(readings) ==
    IF Len(readings) >= 3 /\ Len(filtered_readings(readings)) >= 2
    THEN filtered_readings(readings)
    ELSE readings

\* avg_aqi = round(sum(valid_readings) / len(valid_readings))
avg_aqi_half_up(readings) == PyRoundHalfUp(Sum(readings), Len(readings))
avg_aqi(readings) == PyRound(Sum(readings), Len(readings))

\* area_info as first built: no data
NoDataInfo ==
    [aqi |-> PyStr("N/A"), level |-> "N/A", source |-> "No data available",
     readings |-> << >>, data_points |-> 0]

\* the fallback entry of fetch_jakarta_aqi_map
FallbackInfo ==
    [aqi |-> PyStr("N/A"), level |-> "N/A", source |-> "Error fetching data",
     readings |-> << >>, data_points |-> 0]

\* area_info as returned, from the readings collected by the two loops
AreaInfoKeepsAqi(readings) ==
    IF readings # << >>
    THEN LET used == contributing(readings)
         IN  [aqi |-> PyStr("N/A"),
              level |-> get_aqi_level(PyInt(avg_aqi(used))),
              source |-> "data points",
              readings |-> used,
              data_points |-> Len(used)]
    ELSE NoDataInfo
AreaInfo(readings) ==
    IF readings # << >>
    THEN LET used == contributing(readings)
         IN  [aqi |-> PyInt(avg_aqi(used)),
              level |-> get_aqi_level(PyInt(avg_aqi(used))),
              source |-> "data points",
              readings |-> used,
              data_points |-> Len(used)]
    ELSE NoDataInfo

(***************************************************************************)
(* Ranking of format_aqi_map_message.                                      *)
(***************************************************************************)
Inf == [inf |-> TRUE, n |-> 0]
Key(n) == [inf |-> FALSE, n |-> n]

\* sort_key of one entry of the map
sort_key_absent_first(info) ==
    IF IsSentinel(info.aqi) \/ ~CanInt(info.aqi) THEN Key(-1)
    ELSE Key(ToInt(info.aqi))
sort_key(info) ==
    IF IsSentinel(info.aqi) THEN Inf
    ELSE IF CanInt(info.aqi) THEN Key(ToInt(info.aqi))
    ELSE Inf

\* k1 < k2 on sort keys (float('inf') against int)
KeyLess(k1, k2) == ~k1.inf /\ (k2.inf \/ k1.n < k2.n)

\* list.sort(key=...) is stable: an element goes after its equals
RECURSIVE InsertStable(_, _)
InsertStable(x, s) ==
    IF s = << >> THEN << x >>
    ELSE IF KeyLess(x.sort_key, Head(s).sort_key) THEN << x >> \o s
    ELSE << Head(s) >> \o InsertStable(x, Tail(s))

RECURSIVE StableSort(_)
StableSort(s) ==
    IF s = << >> THEN << >>
    ELSE InsertStable(s[Len(s)], StableSort(SubSeq(s, 1, Len(s) - 1)))

\* sorted_areas after sorted_areas.sort(key=lambda x: x[0])
SortedAreasUnsorted(aqi_map) ==
    [i \in DOMAIN aqi_map |->
        [sort_key |-> sort_key(aqi_map[i].area_data),
         area_key |-> aqi_map[i].area_key,
         area_data |-> aqi_map[i].area_data]]
SortedAreas(aqi_map) ==
    StableSort([i \in DOMAIN aqi_map |->
        [sort_key |-> sort_key(aqi_map[i].area_data),
         area_key |-> aqi_map[i].area_key,
         area_data |-> aqi_map[i].area_data]])

(***************************************************************************)
(* State machine: one run of fetch_jakarta_aqi_map followed by             *)
(* format_aqi_map_message, as the /aqimap handler calls them.              *)
(***************************************************************************)
Areas == DOMAIN registry

max_workers == 5

\* what one source query gave: a usable sample or nothing
Absent == [present |-> FALSE, aqi |-> 0]
Present(n) == [present |-> TRUE, aqi |-> n]
Reading(aqi) == IF aqi = PyNone THEN Absent ELSE Present(ToInt(aqi))

\* the sources of an area: a named station or a geo-probe
Station(i) == [kind |-> "station", index |-> i]
Geo(i) == [kind |-> "geo", index |-> i]

\* the record of the last source query, kept only in an observed run
NotObserved ==
    [on |-> FALSE, area |-> 0, source |-> Station(0),
     payload |-> Failure("none"), result |-> PyNone]
Observed ==
    [on |-> TRUE, area |-> 0, source |-> Station(0),
     payload |-> Failure("none"), result |-> PyNone]
Observation(last, a, source, payload, result) ==
    IF last.on
    THEN [on |-> TRUE, area |-> a, source |-> source, payload |-> payload,
          result |-> result]
    ELSE last

\* position of the area task after its station loop has run out
AfterStationsAlways(a, readings) ==
    IF registry[a].coordinates > 0 THEN "coordinates" ELSE "aggregate"
AfterStations(a, readings) ==
    IF Len(readings) < 2 /\ registry[a].coordinates > 0
    THEN "coordinates"
    ELSE "aggregate"

\* position of the area task after the answer of geo-probe i: the for loop
\* has no break
AfterCoordinatesBreak(a, readings, i) ==
    IF i < registry[a].coordinates /\ Len(readings) < 2
    THEN "coordinates"
    ELSE "aggregate"
AfterCoordinates(a, readings, i) ==
    IF i < registry[a].coordinates THEN "coordinates" ELSE "aggregate"

\* the index the for loop takes after source i, whatever its answer
NextIndexRetry(i, aqi_data) == IF aqi_data = PyNone THEN i ELSE i + 1
NextIndex(i, aqi_data) == i + 1

\* the task is inside requests.get, which blocks until the answer or the
\* timeout
BlockedNever(a) == FALSE
Blocked(a) == in_flight[a] > 0

\* a worker thread of the pool is idle or can still be created
WorkerFreeAlways == TRUE
WorkerFree == Cardinality({b \in Areas : task[b] = "running"}) < workers

InitRun(reg, payloads, observation, pool_size) ==
    /\ registry = reg
    /\ feed = payloads
    /\ main_pc = "start"
    /\ task = [a \in DOMAIN reg |-> "unsubmitted"]
    /\ loop = [a \in DOMAIN reg |-> "stations"]
    /\ idx = [a \in DOMAIN reg |-> 1]
    /\ in_flight = [a \in DOMAIN reg |-> 0]
    /\ fetched = [a \in DOMAIN reg |-> << >>]
    /\ valid_readings = [a \in DOMAIN reg |-> << >>]
    /\ area_info = [a \in DOMAIN reg |-> NoDataInfo]
    /\ finished_futures = << >>
    /\ jakarta_map = << >>
    /\ sorted_areas = << >>
    /\ queried = [a \in DOMAIN reg |-> << >>]
    /\ future_to_area = << >>
    /\ last_query = observation
    /\ workers = pool_size

InitWith(reg, payloads) == InitRun(reg, payloads, NotObserved, max_workers)

\* the futures of the dict comprehension: one submit per item of the registry
Submitted == [i \in 1..Len(registry) |-> i]

\* executor.submit(...) for every area of the registry
Dispatch ==
    /\ main_pc = "start"
    /\ main_pc' = "collecting"
    /\ task' = [a \in Areas |-> "pending"]
    /\ future_to_area' = Submitted
    /\ UNCHANGED << registry, feed, loop, idx, in_flight, fetched,
                    valid_readings, area_info, finished_futures, jakarta_map,
                    sorted_areas, queried, last_query,
                    workers >>

\* a worker thread takes the oldest queued task
Start(a) ==
    /\ task[a] = "pending"
    /\ \A b \in Areas : b < a => task[b] # "pending"
    /\ WorkerFree
    /\ task' = [task EXCEPT ![a] = "running"]
    /\ loop' = [loop EXCEPT ![a] =
                  IF registry[a].stations > 0 THEN "stations"
                  ELSE AfterStations(a, << >>)]
    /\ idx' = [idx EXCEPT ![a] = 1]
    /\ area_info' = [area_info EXCEPT ![a] = NoDataInfo]
    /\ valid_readings' = [valid_readings EXCEPT ![a] = << >>]
    /\ UNCHANGED << registry, feed, main_pc, in_flight, fetched,
                    finished_futures, jakarta_map, sorted_areas, queried,
                    future_to_area, last_query,
                    workers >>

\* fetch_aqi_for_station: requests.get is sent
StationRequest(a) ==
    /\ task[a] = "running"
    /\ loop[a] = "stations"
    /\ ~Blocked(a)
    /\ in_flight' = [in_flight EXCEPT ![a] = @ + 1]
    /\ queried' = [queried EXCEPT ![a] = Append(@, Station(idx[a]))]
    /\ UNCHANGED << registry, feed, main_pc, task, loop, idx, fetched,
                    valid_readings, area_info, finished_futures, jakarta_map,
                    sorted_areas, future_to_area, last_query,
                    workers >>

\* fetch_aqi_for_station returns and the loop body handles the result
StationResponse(a, payload) ==
    /\ task[a] = "running"
    /\ loop[a] = "stations"
    /\ in_flight[a] > 0
    /\ LET aqi_data == fetch_aqi_for_station(payload)
           readings == AppendReading(valid_readings[a], aqi_data)
           next == NextIndex(idx[a], aqi_data)
       IN  /\ valid_readings' = [valid_readings EXCEPT ![a] = readings]
           /\ fetched' = [fetched EXCEPT ![a] = Append(@, Reading(aqi_data))]
           /\ last_query' = Observation(last_query, a, Station(idx[a]),
                                        payload, aqi_data)
           /\ IF next <= registry[a].stations
              THEN /\ idx' = [idx EXCEPT ![a] = next]
                   /\ loop' = loop
              ELSE /\ idx' = [idx EXCEPT ![a] = 1]
                   /\ loop' = [loop EXCEPT ![a] = AfterStations(a, readings)]
    /\ in_flight' = [in_flight EXCEPT ![a] = @ - 1]
    /\ UNCHANGED << registry, feed, main_pc, task, area_info,
                    finished_futures, jakarta_map, sorted_areas, queried,
                    future_to_area,
                    workers >>

\* fetch_aqi_by_coordinates: requests.get is sent
CoordinatesRequest(a) ==
    /\ task[a] = "running"
    /\ loop[a] = "coordinates"
    /\ ~Blocked(a)
    /\ in_flight' = [in_flight EXCEPT ![a] = @ + 1]
    /\ queried' = [queried EXCEPT ![a] = Append(@, Geo(idx[a]))]
    /\ UNCHANGED << registry, feed, main_pc, task, loop, idx, fetched,
                    valid_readings, area_info, finished_futures, jakarta_map,
                    sorted_areas, future_to_area, last_query,
                    workers >>

\* fetch_aqi_by_coordinates returns and the loop body handles the result
CoordinatesResponse(a, payload) ==
    /\ task[a] = "running"
    /\ loop[a] = "coordinates"
    /\ in_flight[a] > 0
    /\ LET coord_data == fetch_aqi_by_coordinates(payload)
           readings == AppendReading(valid_readings[a], coord_data)
           next == NextIndex(idx[a], coord_data)
           after == AfterCoordinates(a, readings, next - 1)
       IN  /\ valid_readings' = [valid_readings EXCEPT ![a] = readings]
           /\ fetched' = [fetched EXCEPT ![a] = Append(@, Reading(coord_data))]
           /\ last_query' = Observation(last_query, a, Geo(idx[a]),
                                        payload, coord_data)
           /\ IF after = "coordinates"
              THEN /\ idx' = [idx EXCEPT ![a] = next]
                   /\ loop' = loop
              ELSE /\ idx' = [idx EXCEPT ![a] = 1]
                   /\ loop' = [loop EXCEPT ![a] = "aggregate"]
    /\ in_flight' = [in_flight EXCEPT ![a] = @ - 1]
    /\ UNCHANGED << registry, feed, main_pc, task, area_info,
                    finished_futures, jakarta_map, sorted_areas, queried,
                    future_to_area,
                    workers >>

\* the task computes the aggregate and returns area_info: its future is done
Return(a) ==
    /\ task[a] = "running"
    /\ loop[a] = "aggregate"
    /\ area_info' = [area_info EXCEPT ![a] = AreaInfo(valid_readings[a])]
    /\ task' = [task EXCEPT ![a] = "finished"]
    /\ finished_futures' = Append(finished_futures, a)
    /\ UNCHANGED << registry, feed, main_pc, loop, idx, in_flight, fetched,
                    valid_readings, jakarta_map, sorted_areas, queried,
                    future_to_area, last_query,
                    workers >>

\* a statement of the task outside the fetchers' try blocks raises (a print
\* to a stream that cannot encode its text): the future holds the exception
Raise(a) ==
    /\ task[a] = "running"
    /\ in_flight[a] = 0
    /\ task' = [task EXCEPT ![a] = "raised"]
    /\ finished_futures' = Append(finished_futures, a)
    /\ UNCHANGED << registry, feed, main_pc, loop, idx, in_flight, fetched,
                    valid_readings, area_info, jakarta_map, sorted_areas,
                    queried, future_to_area, last_query,
                    workers >>

\* the set of keys of the map
Keys(aqi_map) == {aqi_map[i].area_key : i \in DOMAIN aqi_map}

\* jakarta_map[area_key] = ... : a new key goes last, a known key is replaced
SetItem(aqi_map, area_key, info) ==
    IF area_key \in Keys(aqi_map)
    THEN [i \in DOMAIN aqi_map |->
            IF aqi_map[i].area_key = area_key
            THEN [area_key |-> area_key, area_data |-> info]
            ELSE aqi_map[i]]
    ELSE Append(aqi_map, [area_key |-> area_key, area_data |-> info])

\* what the body of the as_completed loop stores for a future
ResultNoFallback(state, info) == info
Result(state, info) == IF state = "raised" THEN FallbackInfo ELSE info

\* where the caller stands after future.result(): except Exception catches
\* what the task raised and the loop goes on
AfterResultUncaught(state) ==
    IF state = "raised" THEN "exception" ELSE "collecting"
AfterResult(state) == "collecting"

\* one iteration of the as_completed loop: the next completed future
Collect ==
    /\ main_pc = "collecting"
    /\ finished_futures # << >>
    /\ LET area_key == Head(finished_futures)
       IN  /\ jakarta_map' = SetItem(jakarta_map, area_key,
                                  Result(task[area_key], area_info[area_key]))
           /\ main_pc' = AfterResult(task[area_key])
    /\ finished_futures' = Tail(finished_futures)
    /\ UNCHANGED << registry, feed, task, loop, idx, in_flight,
                    fetched, valid_readings, area_info, sorted_areas,
                    queried, future_to_area, last_query,
                    workers >>

\* as_completed is exhausted when every future has been yielded
ExhaustedWhenIdle(aqi_map) == finished_futures = << >>
Exhausted(aqi_map) == \A a \in Areas : a \in Keys(aqi_map)

\* the with block ends and the map is returned
ReturnMap ==
    /\ main_pc = "collecting"
    /\ Exhausted(jakarta_map)
    /\ main_pc' = "returned"
    /\ UNCHANGED << registry, feed, task, loop, idx, in_flight, fetched,
                    valid_readings, area_info, finished_futures, jakarta_map,
                    sorted_areas, queried, future_to_area, last_query,
                    workers >>

\* format_aqi_map_message(aqi_map_data)
Format ==
    /\ main_pc = "returned"
    /\ main_pc' = "formatted"
    /\ sorted_areas' = SortedAreas(jakarta_map)
    /\ UNCHANGED << registry, feed, task, loop, idx, in_flight, fetched,
                    valid_readings, area_info, finished_futures, jakarta_map,
                    queried, future_to_area, last_query,
                    workers >>

Next ==
    \/ Dispatch
    \/ \E a \in Areas : Start(a)
    \/ \E a \in Areas : StationRequest(a)
    \/ \E a \in Areas : \E payload \in feed : StationResponse(a, payload)
    \/ \E a \in Areas : CoordinatesRequest(a)
    \/ \E a \in Areas : \E payload \in feed : CoordinatesResponse(a, payload)
    \/ \E a \in Areas : Return(a)
    \/ \E a \in Areas : Raise(a)
    \/ Collect
    \/ ReturnMap
    \/ Format

(***************************************************************************)
(* Runs.                                                                   *)
(***************************************************************************)
\* answers that carry no reading
NoReading ==
    {Failure("timeout"), Failure("transport"), Failure("malformed"),
     Json("error", PyInt(40)), Json("ok", PyStr("-")), Json("ok", PyStr("")),
     Json("ok", PyNone), Json("ok", PyStr("N/A")), Json("ok", PyStr("abc"))}

\* the smallest area that runs both source loops
SmallArea == [stations |-> 1, coordinates |-> 1]

\* Spec: several small areas resolved concurrently
NumAreas == 2

FanOutFeed == NoReading \cup {Json("ok", PyInt(40)), Json("ok", PyDigits(60))}

Init == InitWith([a \in 1..NumAreas |-> SmallArea], FanOutFeed)

Spec == Init /\ [][Next]_vars

\* SpecArea: one area of the shape of 'central' or of the other four areas
CentralStations == 4
OtherStations == 3
Coordinates == 3

AreaFeed ==
    NoReading \cup
    {Json("ok", PyInt(-2)), Json("ok", PyInt(0)), Json("ok", PyDigits(6)),
     Json("ok", PyInt(10)), Json("ok", PyInt(11)), Json("ok", PyFloat(127)),
     Json("ok", PyInt(500))}

InitArea ==
    \E n \in {OtherStations, CentralStations} :
        InitWith(<< [stations |-> n, coordinates |-> Coordinates] >>, AreaFeed)

SpecArea == InitArea /\ [][Next]_vars

\* SpecLevel: one area whose sources answer the values around the band edges
LevelFeed ==
    NoReading \cup
    {Json("ok", PyInt(n)) :
        n \in {-1, 0, 49, 50, 51, 52, 99, 100, 101, 102, 149, 150, 151, 152,
               199, 200, 201, 202, 299, 300, 301, 302}}

InitLevel == InitWith(<< SmallArea >>, LevelFeed)

SpecLevel == InitLevel /\ [][Next]_vars

\* SpecFetch: one small area whose sources answer in every way the two
\* fetchers tell apart; the payload and the result of each query are kept
FetchFeed ==
    NoReading \cup
    {Failure("no_data_key"), Failure("data_not_a_dict"),
     Json("error", PyStr("-")), Json("error", PyDigits(60)),
     Json("ok", PyFloatText("nan")), Json("ok", PyFloatText("inf")),
     Json("ok", PyList),
     Json("ok", PyInt(0)), Json("ok", PyInt(40)), Json("ok", PyDigits(60)),
     Json("ok", PyFloat(127))}

InitFetch == InitRun(<< SmallArea >>, FetchFeed, Observed, max_workers)

SpecFetch == InitFetch /\ [][Next]_vars

\* SpecPool: the fan-out with more areas than workers, on a pool of
\* PoolWorkers workers (the program's pool has max_workers) and a registry
\* of one area more; every source times out
PoolWorkers == 3

PoolFeed == {Failure("timeout")}

InitPool ==
    InitRun([a \in 1..(PoolWorkers + 1) |-> SmallArea], PoolFeed, NotObserved,
            PoolWorkers)

SpecPool == InitPool /\ [][Next]_vars

(***************************************************************************)
(* Properties.                                                             *)
(***************************************************************************)
\* the entries of the map, and of an area once it is in the map
Entries == {jakarta_map[i].area_data : i \in DOMAIN jakarta_map}
Entry(a) ==
    jakarta_map[CHOOSE i \in DOMAIN jakarta_map :
                    jakarta_map[i].area_key = a].area_data

\* the valid samples the sources of area a gave, in query order
IsPresent(reading) == reading.present
Samples(a) ==
    LET got == SelectSeq(fetched[a], IsPresent)
    IN  [k \in DOMAIN got |-> got[k].aqi]

\* areas whose task returned its area_info and whose entry is in the map
Resolved == {a \in Areas : task[a] = "finished" /\ a \in Keys(jakarta_map)}

Returned == main_pc \in {"returned", "formatted"}

\* C1: in every entry of the map, built by the area task or by the error
\* fallback, the aggregate 'aqi' is 'N/A' if and only if 'readings' is empty.
C1_AbsentIffEmpty ==
    \A e \in Entries : (e.aqi = PyStr("N/A")) <=> (e.readings = << >>)

C1_Witness ==
    /\ Returned
    /\ \E e \in Entries : e.aqi.type = "int" /\ Len(e.readings) >= 3

\* C2: for every area whose task returned with at least one valid sample, the
\* aggregate is present and is the integer nearest to the mean of the
\* contributing readings, an exact .5 going to the even neighbour.
C2_RoundedMean ==
    \A a \in Resolved :
        Samples(a) # << >> =>
            LET e == Entry(a)
                n == Len(e.readings)
                distance == Abs(n * e.aqi.n - Sum(e.readings))
            IN  /\ e.aqi.type = "int"
                /\ n > 0
                /\ 2 * distance <= n
                /\ 2 * distance = n => e.aqi.n % 2 = 0

C2_Witness ==
    /\ Returned
    /\ \E a \in Resolved :
          Entry(a).readings = << 10, 11 >> /\ Entry(a).aqi = PyInt(10)

\* twice the median of a non-empty list: for an even number of samples the
\* median is the midpoint of the two middle values
TwiceMedian(samples) ==
    LET n == Len(samples)
        ordered == sorted(samples)
    IN  IF n % 2 = 1
        THEN 2 * ordered[(n + 1) \div 2]
        ELSE ordered[n \div 2] + ordered[(n \div 2) + 1]

\* the samples whose deviation from the median is strictly below half of it
NearMedian(samples) ==
    LET m2 == TwiceMedian(samples)
        Near(r) == 2 * Abs(2 * r - m2) < m2
    IN  SelectSeq(samples, Near)

\* C3: with 3 or more valid samples and the filter kept (it leaves at least 2
\* samples), the contributing list is exactly the samples whose absolute
\* deviation from the median of all valid samples is strictly less than 0.5
\* times that median, the median of an even number of samples being the
\* midpoint of the two middle values.
C3_MedianFilter ==
    \A a \in Resolved :
        (Len(Samples(a)) >= 3 /\ Len(NearMedian(Samples(a))) >= 2)
            => Entry(a).readings = NearMedian(Samples(a))

C5_FewSamplesUnfiltered ==
    \A a \in Resolved :
        Len(Samples(a)) < 3 => Entry(a).readings = Samples(a)

C5_Witness ==
    /\ Returned
    /\ \E a \in Resolved :
          Samples(a) = << 10, 500 >> /\ Entry(a).readings = << 10, 500 >>

\* the band of an integer aggregate
Band(n) ==
    CASE n <= 50 -> "Good"
      [] n \in 51..100 -> "Moderate"
      [] n \in 101..150 -> "Unhealthy for Sensitive Groups"
      [] n \in 151..200 -> "Unhealthy"
      [] n \in 201..300 -> "Very Unhealthy"
      [] n >= 301 -> "Hazardous"

\* C6: the level of every entry is the band of its aggregate, upper bounds
\* inclusive (50, 100, 150, 200, 300 in the lower band, 51, 101, 151, 201,
\* 301 in the next one), and it is N/A exactly when the aggregate is absent.
C6_Bands ==
    \A e \in Entries :
        /\ e.aqi.type = "int" => e.level = Band(e.aqi.n)
        /\ (e.level = "N/A") <=> (e.aqi = PyStr("N/A"))

C6_Witness ==
    /\ Returned
    /\ \E e \in Entries :
          /\ e.aqi \in {PyInt(50), PyInt(100), PyInt(150), PyInt(200),
                        PyInt(300)}
          /\ Len(e.readings) = 2
          /\ e.level = Band(e.aqi.n)

\* the aggregate of a ranked row is present
HasAggregate(row) == row.area_data.aqi.type = "int"

\* C7: in the ranked sequence every area of the map appears once; of two
\* areas with present aggregates the one with the smaller aggregate comes
\* first, and no area with a present aggregate comes after an area with an
\* absent one.
C7_Ranking ==
    main_pc = "formatted" =>
        /\ Len(sorted_areas) = Len(jakarta_map)
        /\ {sorted_areas[i].area_key : i \in DOMAIN sorted_areas}
              = Keys(jakarta_map)
        /\ \A i \in DOMAIN sorted_areas :
              sorted_areas[i].area_data = Entry(sorted_areas[i].area_key)
        /\ \A i, j \in DOMAIN sorted_areas :
              /\ (/\ HasAggregate(sorted_areas[i])
                  /\ HasAggregate(sorted_areas[j])
                  /\ sorted_areas[i].area_data.aqi.n
                        < sorted_areas[j].area_data.aqi.n) => i < j
              /\ (/\ HasAggregate(sorted_areas[i])
                  /\ ~HasAggregate(sorted_areas[j])) => i < j

C7_Witness ==
    /\ main_pc = "formatted"
    /\ Len(jakarta_map) >= 2
    /\ ~HasAggregate(jakarta_map[1])
    /\ HasAggregate(jakarta_map[2])
    /\ sorted_areas[1].area_key = jakarta_map[2].area_key
    /\ sorted_areas[2].area_key = jakarta_map[1].area_key

\* C8: areas with equal sort keys (equal aggregates, or both aggregates
\* absent) appear in the ranked sequence in registry order, whatever the
\* order in which the area tasks completed.
C8_TiesInRegistryOrder ==
    main_pc = "formatted" =>
        \A i, j \in DOMAIN sorted_areas :
            (i < j /\ sorted_areas[i].sort_key = sorted_areas[j].sort_key)
                => sorted_areas[i].area_key < sorted_areas[j].area_key

TotalFailure(a) ==
    \/ task[a] = "raised"
    \/ task[a] = "finished" /\ Samples(a) = << >>

\* C10: no exception of an area task reaches the caller; an area that
\* failed totally has an entry with absent aggregate, level N/A and no
\* readings; the entry of every area whose task returned is the result for
\* its own samples, whatever happened to the other areas.
C10_FailureIsolated ==
    /\ main_pc # "exception"
    /\ \A a \in Keys(jakarta_map) :
          /\ TotalFailure(a) =>
                /\ Entry(a).aqi = PyStr("N/A")
                /\ Entry(a).level = "N/A"
                /\ Entry(a).readings = << >>
          /\ task[a] = "finished" => Entry(a) = AreaInfo(Samples(a))

C10_Witness ==
    /\ Returned
    /\ \E a, b \in Keys(jakarta_map) :
          /\ task[a] = "raised"
          /\ Entry(a).aqi = PyStr("N/A")
          /\ task[b] = "finished"
          /\ Entry(b).aqi = PyInt(50)
          /\ Entry(b).readings = << 40, 60 >>

\* the sources of area a in the order the task walks them
Candidates(a) ==
    [k \in 1..(registry[a].stations + registry[a].coordinates) |->
        IF k <= registry[a].stations
        THEN Station(k)
        ELSE Geo(k - registry[a].stations)]

\* the source the task of area a stands at, 0 when it has left both loops
Candidate(a) ==
    IF loop[a] = "stations" THEN idx[a]
    ELSE IF loop[a] = "coordinates" THEN registry[a].stations + idx[a]
    ELSE 0

\* the answers the claim lists as giving no reading
NoReadingOutcome(payload) ==
    \/ payload.kind # "json"
    \/ payload.status # "ok"
    \/ payload.aqi \in {PyStr("-"), PyStr(""), PyNone}
    \/ payload.aqi.type = "str" /\ payload.aqi.s # "<decimal>"

\* the aqi value of the payload converts to an integer
Converts(value) ==
    \/ value.type = "int"
    \/ value.type = "float" /\ value.s \notin {"nan", "inf"}
    \/ value.type = "str" /\ value.s = "<decimal>"

\* C11: whatever a source answers, the fetcher returns None or the reading
\* and the area task stays alive: None for a timeout, a transport failure,
\* a malformed payload, a status other than "ok", a sentinel or non-numeric
\* aqi; a reading only when status is "ok" and the aqi converts to an
\* integer.  After the answer the task stands at its next candidate source
\* or has left the loops.
C11_AbsentNotRaised ==
    /\ [](last_query.area # 0 =>
            /\ NoReadingOutcome(last_query.payload)
                  => last_query.result = PyNone
            /\ last_query.result # PyNone =>
                  /\ last_query.payload.kind = "json"
                  /\ last_query.payload.status = "ok"
                  /\ Converts(last_query.payload.aqi)
                  /\ last_query.result = last_query.payload.aqi)
    /\ [][\A a \in Areas :
            Len(fetched'[a]) > Len(fetched[a]) =>
                /\ task'[a] = "running"
                /\ Candidate(a)' \in {0, Len(fetched'[a]) + 1}]_vars

C11_Witness ==
    /\ last_query.area # 0
    /\ last_query.source = Geo(1)
    /\ last_query.payload = Json("error", PyDigits(60))
    /\ last_query.result = PyNone
    /\ fetched[last_query.area] = << Absent, Absent >>

\* the answers to the first n source queries of area a
Answers(a, n) ==
    SubSeq(fetched[a], 1, IF n < Len(fetched[a]) THEN n ELSE Len(fetched[a]))

\* how many of the first n source queries of area a gave a present value
PresentAmong(a, n) == Len(SelectSeq(Answers(a, n), IsPresent))

\* how many named stations of area a gave a present value so far
StationsPresent(a) == PresentAmong(a, registry[a].stations)

\* the k-th source query of area a went to a geo-probe
IsGeoQuery(a, k) == queried[a][k].kind = "geo"

\* C12 as stated: no geo-probe is queried once 2 present values have been
\* collected, so before every geo-probe query fewer than 2 of the earlier
\* answers of the area are present.
C12_ProbingStopsAtTwo ==
    \A a \in Areas : \A k \in DOMAIN queried[a] :
        IsGeoQuery(a, k) => PresentAmong(a, k - 1) < 2

\* C12 amended: geo-probing is decided once, after the named stations.  If
\* they gave fewer than 2 present values, every geo-probe of the area is
\* queried, in registry order, also after the count of present values has
\* reached 2; otherwise none is.  When the task has left its loops, the
\* queries it sent are all its sources or its named stations only.
C12_ProbingRunsOut ==
    \A a \in Areas :
        loop[a] = "aggregate" =>
            queried[a] =
                IF StationsPresent(a) < 2
                THEN Candidates(a)
                ELSE SubSeq(Candidates(a), 1, registry[a].stations)

C12_Witness ==
    \E a \in Areas :
        /\ task[a] = "finished"
        /\ StationsPresent(a) = 1
        /\ PresentAmong(a, registry[a].stations + 1) = 2
        /\ registry[a].coordinates = Coordinates
        /\ queried[a] = Candidates(a)
        /\ Len(Samples(a)) = 1 + Coordinates

\* C13: a geo-probe of an area is queried only after every named station
\* of the area has been queried and has answered, and only if fewer than 2
\* of the stations gave a present value; with 2 or more present station
\* values no geo-probe of the area is queried.
C13_ProbesAfterStations ==
    \A a \in Areas :
        /\ \A k \in DOMAIN queried[a] :
              IsGeoQuery(a, k) =>
                  /\ k > registry[a].stations
                  /\ Len(fetched[a]) >= registry[a].stations
                  /\ \A j \in 1..registry[a].stations :
                        queried[a][j] = Station(j)
                  /\ StationsPresent(a) < 2
        /\ (Len(fetched[a]) >= registry[a].stations /\ StationsPresent(a) >= 2)
              => \A k \in DOMAIN queried[a] : ~IsGeoQuery(a, k)

C13_Witness ==
    \E a \in Areas :
        /\ in_flight[a] = 1
        /\ Len(queried[a]) = registry[a].stations + 1
        /\ IsGeoQuery(a, Len(queried[a]))
        /\ StationsPresent(a) = 1
        /\ fetched[a][1] = Absent

\* C14: at every moment of a run the number of source fetches in flight,
\* over all areas together, is at most the max_workers of the pool, also
\* when the registry has more areas than the pool has workers.
C14_InFlightBounded == Sum(in_flight) <= workers

C14_Witness ==
    /\ Len(registry) > workers
    /\ Sum(in_flight) = workers
    /\ \E a \in Areas : task[a] = "pending"

\* C15 as stated: the named sources of an area are queried concurrently, so
\* a fetch in flight does not delay the query of the area's next named
\* source: while a station fetch is in flight and a named station is left,
\* the request to the next one can be sent.
C15_SourcesConcurrent ==
    \A a \in Areas :
        (/\ task[a] = "running"
         /\ loop[a] = "stations"
         /\ in_flight[a] > 0
         /\ idx[a] < registry[a].stations)
            => ENABLED StationRequest(a)

\* C15 amended: the sources of one area are queried one after another by
\* the area's single task: at most one fetch per area is in flight, and a
\* source is queried only when every earlier query of the area has been
\* answered or has timed out, so a slow source delays the later ones.
C15_OneFetchPerArea ==
    \A a \in Areas :
        /\ in_flight[a] <= 1
        /\ Len(queried[a]) = Len(fetched[a]) + in_flight[a]

C15_Witness ==
    \E a \in Areas :
        /\ loop[a] = "stations"
        /\ in_flight[a] = 1
        /\ queried[a] = << Station(1), Station(2) >>
        /\ fetched[a] = << Absent >>
        /\ ~ENABLED StationRequest(a)

\* C16: within one run no source of an area is queried twice, whatever it
\* answered: the queries of an area are its sources in order, each once;
\* and every area of the registry is submitted as exactly one task.
C16_NoRetry ==
    /\ \A a \in Areas :
          /\ Len(queried[a]) <= Len(Candidates(a))
          /\ queried[a] = SubSeq(Candidates(a), 1, Len(queried[a]))
          /\ \A j, k \in DOMAIN queried[a] :
                queried[a][j] = queried[a][k] => j = k
    /\ main_pc # "start" =>
          \A a \in Areas :
              Cardinality({i \in DOMAIN future_to_area :
                              future_to_area[i] = a}) = 1

C16_Witness ==
    /\ Returned
    /\ \E a \in Areas :
          /\ task[a] = "finished"
          /\ fetched[a] = << Absent, Absent >>
          /\ queried[a] = << Station(1), Geo(1) >>

====
